---- MODULE Spec2Model ----
(***************************************************************************)
(* Model of the octopus forwarding proxy core:                             *)
(*   src/src/http/headers.rs  Headers (ordered, case-insensitive store)    *)
(*   src/src/request.rs       Request (construction, serialize, connect,   *)
(*                            forward)                                     *)
(* Byte strings are sequences of one-byte tokens ("H", ":", "\r", ...).    *)
(***************************************************************************)
EXTENDS Integers, Sequences, FiniteSets, TLC

VARIABLES
    \* the header store under test
    hdrs, log, hstate, ret,
    \* a Request under construction and use
    rin, req, rstate, rsite, rout,
    \* one run of Request::forward
    pc, body, retry_i, conn_log, connect_ret, up_written, up_read, buffer,
    nread, down, down_writes, end_reason

hvars == <<hdrs, log, hstate, ret>>

rvars == <<rin, req, rstate, rsite, rout>>

fvars == <<pc, body, retry_i, conn_log, connect_ret, up_written, up_read, buffer,
           nread, down, down_writes, end_reason>>

vars == <<hvars, rvars, fvars>>

(***************************************************************************)
(* Bounds of the model.                                                    *)
(***************************************************************************)
MaxHeaders == 3

\* Longest header list of a request under construction.
MaxReqHeaders == 2

\* Size of the relay buffer (65535 in the source, scaled down).
BufferSize == 2

\* Most data reads of one relay run.
MaxReads == 2

(***************************************************************************)
(* Bytes and strings.                                                      *)
(***************************************************************************)
\* A byte that never occurs in well-formed UTF-8 (0xFF).
BadByte == "0xFF"

Digits == <<"0", "1", "2", "3", "4", "5", "6", "7", "8", "9">>

\* char::to_lowercase restricted to the ASCII letters the inputs use.
ToLowerChar(c) ==
    CASE c = "A" -> "a" [] c = "C" -> "c" [] c = "H" -> "h" [] c = "L" -> "l"
      [] c = "M" -> "m" [] c = "O" -> "o" [] c = "S" -> "s" [] c = "T" -> "t"
      [] OTHER -> c

\* String::to_lowercase
to_lowercase(s) == [i \in 1..Len(s) |-> ToLowerChar(s[i])]

\* String::from_utf8(..).is_ok(): every byte of the inputs is ASCII except
\* BadByte, which is invalid wherever it stands.
Utf8Valid(bytes) == \A i \in 1..Len(bytes) : bytes[i] # BadByte

DigitValue(c) == (CHOOSE i \in 1..10 : Digits[i] = c) - 1

IsDigit(c) == \E i \in 1..10 : Digits[i] = c

RECURSIVE DecimalValue(_)
DecimalValue(s) ==
    IF s = <<>> THEN 0
    ELSE 10 * DecimalValue(SubSeq(s, 1, Len(s) - 1)) + DigitValue(s[Len(s)])

\* str::parse::<usize>().is_ok() on the byte alphabet of the inputs: a
\* non-empty run of decimal digits.
ParsesAsUsize(s) == s # <<>> /\ \A i \in 1..Len(s) : IsDigit(s[i])

HEADER_EXTRA_BYTES == 4

HEADER_SEPARATOR == <<":", " ">>

HEADER_NEWLINE == <<"\r", "\n">>

KEY_HOST == <<"h", "o", "s", "t">>

KEY_CONTENT_LENGTH ==
    <<"c", "o", "n", "t", "e", "n", "t", "-", "l", "e", "n", "g", "t", "h">>

(***************************************************************************)
(* Inputs.                                                                 *)
(***************************************************************************)
NameHost == <<"H", "o", "s", "t">>

NameHOST == <<"H", "O", "S", "T">>

NameContentLength ==
    <<"C", "o", "n", "t", "e", "n", "t", "-", "L", "e", "n", "g", "t", "h">>

NameAccept == <<"A", "c", "c", "e", "p", "t">>

NameMost == <<"M", "o", "s", "t">>

FieldNames == {NameHost, NameHOST, NameContentLength, NameAccept}

QueryNames == {KEY_HOST, NameHOST, NameContentLength, NameAccept, NameMost}

FieldValues == {<<"1", "0">>, <<"x">>, <<BadByte>>}

RawHeader == [name : FieldNames, value : FieldValues]

RECURSIVE SeqsUpTo(_, _)
SeqsUpTo(S, n) ==
    IF n = 0 THEN {<<>>}
    ELSE LET shorter == SeqsUpTo(S, n - 1)
         IN  shorter \cup {Append(s, x) : s \in {t \in shorter : Len(t) = n - 1}, x \in S}

(***************************************************************************)
(* OctopusHeader and Headers.                                              *)
(***************************************************************************)
OctopusHeader_new(original, contents, order) ==
    [original_name |-> original,
     value         |-> contents,
     value_str     |-> contents,
     order         |-> order,
     length_hint   |-> Len(original) + Len(contents) + HEADER_EXTRA_BYTES]

Headers_new == [data |-> <<>>, total_count |-> 0]

\* Headers::insert, for a value that decodes (OctopusHeader::new unwraps the
\* decoding; see InsertPanics).
Headers_insert(h, name, value) ==
    LET key  == to_lowercase(name)
        item == OctopusHeader_new(name, value, h.total_count)
    IN  [data |-> IF key \in DOMAIN h.data
                  THEN [h.data EXCEPT ![key] = Append(@, item)]
                  ELSE h.data @@ (key :> <<item>>),
         total_count |-> h.total_count + 1]

InsertPanics(value) == ~Utf8Valid(value)

\* Option<&Vec<u8>>
None == [some |-> FALSE, v |-> <<>>]

Some(x) == [some |-> TRUE, v |-> x]

\* Headers_get reading the back of the bucket instead of the front.
Headers_get_Back(h, name) ==
    LET name_lower == to_lowercase(name)
    IN  IF name_lower \in DOMAIN h.data
        THEN IF h.data[name_lower] # <<>>
             THEN Some(h.data[name_lower][Len(h.data[name_lower])].value)
             ELSE None
        ELSE None

Headers_get(h, name) ==
    LET name_lower == to_lowercase(name)
    IN  IF name_lower \in DOMAIN h.data
        THEN IF h.data[name_lower] # <<>>
             THEN Some(Head(h.data[name_lower]).value)
             ELSE None
        ELSE None

\* Headers_validate without the Content-Length check.
Headers_validate_HostOnly(h) ==
    IF KEY_HOST \in DOMAIN h.data THEN Len(h.data[KEY_HOST]) <= 1 ELSE TRUE

Headers_validate(h) ==
    LET host_ok   == IF KEY_HOST \in DOMAIN h.data
                     THEN Len(h.data[KEY_HOST]) <= 1 ELSE TRUE
        length_ok == IF KEY_CONTENT_LENGTH \in DOMAIN h.data
                     THEN Len(h.data[KEY_CONTENT_LENGTH]) <= 1 ELSE TRUE
    IN  host_ok /\ length_ok

\* Headers::from_raw: total_count starts at raw.len(), then one insert per
\* raw header, then validate.  status is "Ok", "Err" or "panic" (a value that
\* does not decode makes OctopusHeader::new unwind).
RECURSIVE InsertAll(_, _)
InsertAll(h, raw) ==
    IF raw = <<>> THEN h
    ELSE InsertAll(Headers_insert(h, Head(raw).name, Head(raw).value), Tail(raw))

Headers_from_raw(raw) ==
    LET start   == [Headers_new EXCEPT !.total_count = Len(raw)]
        headers == InsertAll(start, raw)
    IN  IF \E i \in 1..Len(raw) : InsertPanics(raw[i].value)
        THEN [status |-> "panic", headers |-> Headers_new]
        ELSE IF Headers_validate(headers)
             THEN [status |-> "Ok", headers |-> headers]
             ELSE [status |-> "Err", headers |-> headers]

\* Headers_content_length yielding the length of the value, not its number.
Headers_content_length_Len(h) ==
    LET got == Headers_get(h, KEY_CONTENT_LENGTH)
    IN  IF got.some
        THEN IF ParsesAsUsize(got.v)
             THEN [panic |-> FALSE, some |-> TRUE, n |-> Len(got.v)]
             ELSE [panic |-> TRUE, some |-> FALSE, n |-> 0]
        ELSE [panic |-> FALSE, some |-> FALSE, n |-> 0]

\* Headers::content_length: Option<usize>, or a panic when the first value
\* under "content-length" does not parse.
Headers_content_length(h) ==
    LET got == Headers_get(h, KEY_CONTENT_LENGTH)
    IN  IF got.some
        THEN IF ParsesAsUsize(got.v)
             THEN [panic |-> FALSE, some |-> TRUE, n |-> DecimalValue(got.v)]
             ELSE [panic |-> TRUE, some |-> FALSE, n |-> 0]
        ELSE [panic |-> FALSE, some |-> FALSE, n |-> 0]

\* The orders in which `for (_, headers) in &self.data` may visit the buckets:
\* every arrangement of the keys.
BucketOrders(h) ==
    LET keys == DOMAIN h.data
        n    == Cardinality(keys)
    IN  {p \in [1..n -> keys] : \A i, j \in 1..n : p[i] = p[j] => i = j}

RECURSIVE Visit(_, _)
Visit(h, perm) ==
    IF perm = <<>> THEN <<>>
    ELSE h.data[Head(perm)] \o Visit(h, Tail(perm))

\* HeaderRow with a bare ":" between name and value.
HeaderRow_NoSpace(header) ==
    header.original_name \o <<":">> \o header.value \o HEADER_NEWLINE

HeaderRow(header) ==
    header.original_name \o HEADER_SEPARATOR \o header.value \o HEADER_NEWLINE

\* The first loop of to_utf8 over the headers in visiting order: temp is the
\* row table (indices 0..total_count), bytes the running size.
RECURSIVE FillRows(_, _)
FillRows(acc, headers) ==
    IF headers = <<>> \/ acc.panic THEN acc
    ELSE LET header == Head(headers)
         IN  IF header.order \notin DOMAIN acc.temp
             THEN [acc EXCEPT !.panic = TRUE]
             ELSE LET row == acc.temp[header.order] \o HeaderRow(header)
                  IN  FillRows([panic |-> FALSE,
                                temp  |-> [acc.temp EXCEPT ![header.order] = row],
                                bytes |-> acc.bytes + Len(row)],
                               Tail(headers))

RECURSIVE Collect(_, _, _)
Collect(temp, i, last) ==
    IF i > last THEN <<>> ELSE temp[i] \o Collect(temp, i + 1, last)

RECURSIVE RowsInVisitOrder(_)
RowsInVisitOrder(headers) ==
    IF headers = <<>> THEN <<>>
    ELSE HeaderRow(Head(headers)) \o RowsInVisitOrder(Tail(headers))

\* Headers_to_utf8 emitting the rows as the buckets are visited, not by order.
Headers_to_utf8_BucketOrder(h, perm) ==
    LET rows == RowsInVisitOrder(Visit(h, perm))
    IN  [panic |-> FALSE,
         out |-> rows \o HEADER_NEWLINE,
         capacity |-> Len(rows) + Len(HEADER_NEWLINE)]

\* Headers_to_utf8 sizing the buffer for the field rows only.
Headers_to_utf8_RowsOnly(h, perm) ==
    LET empty  == [i \in 0..h.total_count |-> <<>>]
        filled == FillRows([panic |-> FALSE, temp |-> empty, bytes |-> 0],
                           Visit(h, perm))
        temp   == [filled.temp EXCEPT ![h.total_count] = HEADER_NEWLINE]
    IN  IF filled.panic
        THEN [panic |-> TRUE, out |-> <<>>, capacity |-> 0]
        ELSE [panic |-> FALSE,
              out |-> Collect(temp, 0, h.total_count),
              capacity |-> filled.bytes]

\* Headers::to_utf8 with the bucket visiting order perm.
Headers_to_utf8(h, perm) ==
    LET empty  == [i \in 0..h.total_count |-> <<>>]
        filled == FillRows([panic |-> FALSE, temp |-> empty, bytes |-> 0],
                           Visit(h, perm))
        temp   == [filled.temp EXCEPT ![h.total_count] = HEADER_NEWLINE]
    IN  IF filled.panic
        THEN [panic |-> TRUE, out |-> <<>>, capacity |-> 0]
        ELSE [panic |-> FALSE,
              out |-> Collect(temp, 0, h.total_count),
              capacity |-> filled.bytes + Len(HEADER_NEWLINE)]

\* Headers_clone copying the buckets into a store that counts from zero.
Headers_clone_FreshCount(h) == [data |-> h.data, total_count |-> 0]

\* Clone for Headers
Headers_clone(h) == [data |-> h.data, total_count |-> h.total_count]

(***************************************************************************)
(* url::Url::parse and std::net::IpAddr::from_str, as far as the inputs    *)
(* below exercise them: "scheme://host[:port][/path]" and "scheme:path".   *)
(***************************************************************************)
\* str::find(c): the first position of c, 0 for None.
Find(s, c) ==
    IF \E i \in 1..Len(s) : s[i] = c
    THEN CHOOSE i \in 1..Len(s) : s[i] = c /\ \A j \in 1..(i - 1) : s[j] # c
    ELSE 0

SchemeChars ==
    {"a", "b", "c", "d", "e", "f", "g", "h", "i", "j", "k", "l", "m", "n", "o",
     "p", "q", "r", "s", "t", "u", "v", "w", "x", "y", "z", "+", "-", "."}

SCHEME_HTTP == <<"h", "t", "t", "p">>

SCHEME_HTTPS == <<"h", "t", "t", "p", "s">>

SpecialSchemes == {SCHEME_HTTP, SCHEME_HTTPS, <<"f", "t", "p">>}

NoPort == -1

DefaultPort(scheme) ==
    CASE scheme = SCHEME_HTTP -> 80 [] scheme = SCHEME_HTTPS -> 443
      [] scheme = <<"f", "t", "p">> -> 21 [] OTHER -> NoPort

UrlError == [ok |-> FALSE, scheme |-> <<>>, has_host |-> FALSE, host |-> <<>>,
             port |-> NoPort, path |-> <<>>]

RECURSIVE StripSlashes(_)
StripSlashes(s) ==
    IF s # <<>> /\ Head(s) = "/" THEN StripSlashes(Tail(s)) ELSE s

\* The authority and path of a URL with a host.
UrlWithHost(scheme, after) ==
    LET slash     == Find(after, "/")
        authority == IF slash = 0 THEN after ELSE SubSeq(after, 1, slash - 1)
        path      == IF slash = 0 THEN <<"/">> ELSE SubSeq(after, slash, Len(after))
        colon     == Find(authority, ":")
        host      == IF colon = 0 THEN authority ELSE SubSeq(authority, 1, colon - 1)
        portstr   == IF colon = 0 THEN <<>>
                     ELSE SubSeq(authority, colon + 1, Len(authority))
        port      == IF portstr = <<>> THEN NoPort ELSE DecimalValue(portstr)
    IN  IF host = <<>> \/ (portstr # <<>> /\ ~ParsesAsUsize(portstr))
        THEN UrlError
        ELSE [ok |-> TRUE, scheme |-> scheme, has_host |-> TRUE,
              host |-> to_lowercase(host),
              port |-> IF port = DefaultPort(scheme) THEN NoPort ELSE port,
              path |-> path]

Url_parse(s) ==
    LET colon  == Find(s, ":")
        scheme == to_lowercase(SubSeq(s, 1, colon - 1))
        rest   == SubSeq(s, colon + 1, Len(s))
    IN  IF colon <= 1 \/ \E i \in 1..Len(scheme) : scheme[i] \notin SchemeChars
        THEN UrlError
        ELSE IF scheme \in SpecialSchemes
             THEN UrlWithHost(scheme, StripSlashes(rest))
             ELSE IF Len(rest) >= 2 /\ SubSeq(rest, 1, 2) = <<"/", "/">>
                  THEN UrlWithHost(scheme, SubSeq(rest, 3, Len(rest)))
                  ELSE [ok |-> TRUE, scheme |-> scheme, has_host |-> FALSE,
                        host |-> <<>>, port |-> NoPort, path |-> rest]

\* IpAddr::from_str(domain).is_ok() for the hosts of the inputs: a dotted
\* quad of single digits; every other host of the inputs is a name.
IpAddr_from_str_ok(domain) ==
    /\ Len(domain) = 7
    /\ \A i \in {1, 3, 5, 7} : IsDigit(domain[i])
    /\ \A i \in {2, 4, 6} : domain[i] = "."

(***************************************************************************)
(* Request.                                                                *)
(***************************************************************************)
\* url_is_relative taking every target without a colon for relative.
url_is_relative_NoColon(url) ==
    LET colon == Find(url, ":")
        slash == Find(url, "/")
    IN  IF colon = 0 THEN TRUE
        ELSE IF slash # 0 THEN slash < colon ELSE FALSE

url_is_relative(url) ==
    LET colon == Find(url, ":")
        slash == Find(url, "/")
    IN  IF slash # 0
        THEN IF colon # 0 THEN slash < colon ELSE TRUE
        ELSE FALSE

PREFIX_HTTP == <<"h", "t", "t", "p", ":", "/", "/">>

\* The bytes Request::from_raw hands to Url::parse (lines 51-67), given the
\* store and the raw target; host_missing when get("Host") is None.
Request_url_bytes(headers, path) ==
    LET host == Headers_get(headers, NameHost)
    IN  IF url_is_relative(path)
        THEN [host_missing |-> ~host.some, bytes |-> PREFIX_HTTP \o host.v \o path]
        ELSE [host_missing |-> FALSE, bytes |-> path]

NoRequest ==
    [url |-> UrlError, method |-> <<>>, version |-> 0, headers |-> Headers_new]

\* Request::from_raw.  The value Headers::from_raw returns is used as the
\* store without looking at whether validation passed; the unwraps are the
\* panics.
Request_from_raw(request) ==
    LET parsed == Headers_from_raw(request.headers)
        glued  == Request_url_bytes(parsed.headers, request.path)
        url    == Url_parse(glued.bytes)
    IN  IF parsed.status = "panic"
        THEN [status |-> "panic", site |-> "header value utf8", request |-> NoRequest]
        ELSE IF glued.host_missing
        THEN [status |-> "panic", site |-> "host missing", request |-> NoRequest]
        ELSE IF ~url.ok
        THEN [status |-> "panic", site |-> "url parse", request |-> NoRequest]
        ELSE [status |-> "built", site |-> "",
              request |-> [url |-> url, method |-> request.method,
                           version |-> request.version,
                           headers |-> parsed.headers]]

\* headers.serialize(), the header block in insertion order closed by "\r\n".
Headers_serialize(h, perm) == Headers_to_utf8(h, perm).out

VersionDigit(v) == Digits[v + 1]

\* Request::serialize with the bucket visiting order perm.
Request_serialize(r, perm) ==
    r.method \o <<" ">> \o r.url.path \o <<" ", "H", "T", "T", "P", "/", "1", ".">> \o <<VersionDigit(r.version)>>
      \o <<"\r", "\n">>
      \o Headers_serialize(r.headers, perm)
      \o <<"\r", "\n">>

(***************************************************************************)
(* The header store as a state machine.  hdrs is the store, log the        *)
(* (name, value) pairs handed to it so far in call order, hstate how it    *)
(* came to be, ret the result of the last read operation.                  *)
(***************************************************************************)
NoRet == [op |-> "none", arg |-> <<>>, some |-> FALSE, bytes |-> <<>>, n |-> 0]

HeadersInit ==
    /\ hdrs = Headers_new
    /\ log = <<>>
    /\ hstate = "new"
    /\ ret = NoRet

Usable == hstate \in {"new", "from_raw"}

\* headers.insert(name, value)
Insert ==
    /\ Usable
    /\ Len(log) < MaxHeaders
    /\ \E name \in FieldNames, value \in FieldValues :
         IF InsertPanics(value)
         THEN /\ hstate' = "panic"
              /\ UNCHANGED <<hdrs, log>>
         ELSE /\ hdrs' = Headers_insert(hdrs, name, value)
              /\ log' = Append(log, [name |-> name, value |-> value])
              /\ UNCHANGED hstate
    /\ ret' = NoRet
    /\ UNCHANGED <<rvars, fvars>>

\* Headers::from_raw(raw)
FromRaw ==
    /\ hstate = "new"
    /\ log = <<>>
    /\ \E raw \in SeqsUpTo(RawHeader, MaxHeaders) :
         LET r == Headers_from_raw(raw)
         IN  /\ hdrs' = r.headers
             /\ log' = IF r.status = "panic" THEN <<>> ELSE raw
             /\ hstate' = CASE r.status = "Ok"  -> "from_raw"
                            [] r.status = "Err" -> "from_raw_err"
                            [] OTHER            -> "panic"
    /\ ret' = [NoRet EXCEPT !.op = "from_raw"]
    /\ UNCHANGED <<rvars, fvars>>

\* headers.get(name)
Get ==
    /\ Usable
    /\ \E name \in QueryNames :
         LET got == Headers_get(hdrs, name)
         IN  ret' = [op |-> "get", arg |-> name, some |-> got.some,
                     bytes |-> got.v, n |-> 0]
    /\ UNCHANGED <<hdrs, log, hstate, rvars, fvars>>

\* headers.content_length()
ContentLength ==
    /\ Usable
    /\ LET got == Headers_content_length(hdrs)
       IN  IF got.panic
           THEN /\ hstate' = "panic"
                /\ ret' = [NoRet EXCEPT !.op = "content_length"]
           ELSE /\ ret' = [op |-> "content_length", arg |-> <<>>,
                           some |-> got.some, bytes |-> <<>>, n |-> got.n]
                /\ UNCHANGED hstate
    /\ UNCHANGED <<hdrs, log, rvars, fvars>>

\* let buffer: Vec<u8> = headers.into()
ToUtf8 ==
    /\ Usable
    /\ \E perm \in BucketOrders(hdrs) :
         LET got == Headers_to_utf8(hdrs, perm)
         IN  IF got.panic
             THEN /\ hstate' = "panic"
                  /\ ret' = [NoRet EXCEPT !.op = "to_utf8"]
             ELSE /\ ret' = [op |-> "to_utf8", arg |-> <<>>, some |-> TRUE,
                             bytes |-> got.out, n |-> got.capacity]
                  /\ UNCHANGED hstate
    /\ UNCHANGED <<hdrs, log, rvars, fvars>>

\* headers = headers.clone(): the program goes on with the copy
Clone ==
    /\ Usable
    /\ hdrs' = Headers_clone(hdrs)
    /\ ret' = [NoRet EXCEPT !.op = "clone"]
    /\ UNCHANGED <<log, hstate, rvars, fvars>>

(***************************************************************************)
(* Request construction and serialization as a state machine.  rin is the  *)
(* parsed request handed to Request::from_raw, req the Request it built,   *)
(* rstate "none", "built" or "panic" (rsite: which unwrap), rout the last  *)
(* serialization.                                                          *)
(***************************************************************************)
ReqFields ==
    {[name |-> NameHost, value |-> <<"x">>],
     [name |-> NameHOST, value |-> <<"y">>],
     [name |-> NameContentLength, value |-> <<"1", "0">>],
     [name |-> NameAccept, value |-> <<"x">>],
     [name |-> NameAccept, value |-> <<BadByte>>]}

Targets ==
    {<<"/", "i">>,
     <<"h", "t", "t", "p", ":", "/", "/", "z", "/", "i">>,
     <<"i">>,
     <<"/", "a", ":", "b">>,
     <<"x", ":", "1">>}

METHOD_GET == <<"G", "E", "T">>

Versions == {0, 1}

NoInput == [path |-> <<>>, method |-> <<>>, version |-> 0, headers |-> <<>>]

RequestIdle ==
    /\ rin = NoInput
    /\ req = NoRequest
    /\ rstate = "none"
    /\ rsite = ""
    /\ rout = <<>>

\* Request::from_raw(request)
RequestFromRaw ==
    /\ rstate = "none"
    /\ \E path \in Targets, version \in Versions,
          raw \in SeqsUpTo(ReqFields, MaxReqHeaders) :
         LET request == [path |-> path, method |-> METHOD_GET,
                         version |-> version, headers |-> raw]
             built   == Request_from_raw(request)
         IN  /\ rin' = request
             /\ req' = built.request
             /\ rstate' = built.status
             /\ rsite' = built.site
    /\ UNCHANGED <<rout, hvars, fvars>>

\* request.serialize()
Serialize ==
    /\ rstate = "built"
    /\ \E perm \in BucketOrders(req.headers) :
         rout' = Request_serialize(req, perm)
    /\ UNCHANGED <<rin, req, rstate, rsite, hvars, fvars>>

(***************************************************************************)
(* Request::forward as a state machine, one step per blocking transport    *)
(* operation.  pc is the place in forward/connect; conn_log the outcome of *)
(* every TcpStream::connect so far; connect_ret what connect() returned;   *)
(* up_written / up_read the bytes sent to and received from upstream; down *)
(* the bytes the downstream sink took; down_writes the write_all calls on  *)
(* it; end_reason why the copy loop ended.                                 *)
(***************************************************************************)
CONNECT_RETRIES == 2

ERROR_RESPONSE ==
    <<"H", "T", "T", "P", "/", "1", ".", "1", " ", "5", "0", "1", " ", "I", "n", "t", "e", "r", "n", "a", "l", " ", "S", "e", "r", "v", "e", "r", " ", "E", "r", "r", "o", "r", "\r", "\n">>
    \o <<"C", "o", "n", "t", "e", "n", "t", "-", "L", "e", "n", "g", "t", "h", ":", " ", "6", "\r", "\n">>
    \o <<"S", "o", "r", "r", "y", "\n">>

UpstreamBytes == {"a", "b"}

Bodies == {<<>>, <<"b">>}

ZeroBuffer == [i \in 1..BufferSize |-> "0x00"]

NotReturned == [state |-> "none", id |-> 0]

ForwardIdle ==
    /\ pc = "idle"
    /\ body = <<>>
    /\ retry_i = 0
    /\ conn_log = <<>>
    /\ connect_ret = NotReturned
    /\ up_written = <<>>
    /\ up_read = <<>>
    /\ buffer = ZeroBuffer
    /\ nread = 0
    /\ down = <<>>
    /\ down_writes = 0
    /\ end_reason = ""

\* The requests the relay runs are given.
RelayInputs ==
    {[path |-> <<"/", "i">>, method |-> METHOD_GET, version |-> 1,
      headers |-> <<[name |-> NameHost, value |-> <<"1", ".", "2", ".", "3", ".", "4">>]>>],
     [path |-> <<"h", "t", "t", "p", ":", "/", "/", "1", ".", "2", ".", "3", ".", "4", ":", "8", "/", "i">>, method |-> METHOD_GET, version |-> 1,
      headers |-> <<>>],
     [path |-> <<"h", "t", "t", "p", "s", ":", "/", "/", "1", ".", "2", ".", "3", ".", "4", "/">>, method |-> METHOD_GET, version |-> 0,
      headers |-> <<>>],
     [path |-> <<"h", "t", "t", "p", ":", "/", "/", "z", "/", "i">>, method |-> METHOD_GET, version |-> 1,
      headers |-> <<>>],
     [path |-> <<"f", "t", "p", ":", "/", "/", "1", ".", "2", ".", "3", ".", "4", "/", "i">>, method |-> METHOD_GET, version |-> 1,
      headers |-> <<>>],
     [path |-> <<"x", ":", "1">>, method |-> METHOD_GET, version |-> 1,
      headers |-> <<>>]}

\* Lines 126-140 of connect: the address, or the unwrap/panic! that fires.
connect_resolve(r) ==
    IF ~r.url.has_host THEN "panic: no host"
    ELSE IF r.url.port = NoPort /\ r.url.scheme \notin {SCHEME_HTTP, SCHEME_HTTPS}
    THEN "panic: unknown scheme"
    ELSE IF ~IpAddr_from_str_ok(r.url.host) THEN "panic: not an ip"
    ELSE "resolved"

\* connect that keeps trying when a retried attempt succeeded.
connect_attempt_NoReturn(i, ok, id) ==
    IF i < CONNECT_RETRIES
    THEN [returned |-> FALSE, i |-> i + 1, ret |-> NotReturned]
    ELSE [returned |-> TRUE, i |-> i,
          ret |-> IF ok THEN [state |-> "Ok", id |-> id]
                  ELSE [state |-> "Err", id |-> id]]

\* Lines 143-154 of connect: what the attempt numbered id, made with loop
\* index i (CONNECT_RETRIES is the attempt after the loop), leads to.
connect_attempt(i, ok, id) ==
    IF i < CONNECT_RETRIES
    THEN IF ok
         THEN [returned |-> TRUE, i |-> i, ret |-> [state |-> "Ok", id |-> id]]
         ELSE [returned |-> FALSE, i |-> i + 1, ret |-> NotReturned]
    ELSE [returned |-> TRUE, i |-> i,
          ret |-> IF ok THEN [state |-> "Ok", id |-> id]
                  ELSE [state |-> "Err", id |-> id]]

\* What a write_all(bytes) may do: take everything, or fail after taking
\* only a proper prefix.
WriteOutcomes(bytes) ==
    {[ok |-> TRUE, taken |-> bytes]}
      \cup {[ok |-> FALSE, taken |-> SubSeq(bytes, 1, k)] : k \in 0..(Len(bytes) - 1)}

\* The slice forward relays after a read of n bytes into the whole buffer.
relay_slice_Whole(buf, n) == buf

\* &buffer[..n]
relay_slice(buf, n) == SubSeq(buf, 1, n)

\* self.connect(), up to the first TcpStream::connect
ConnectResolve ==
    /\ pc = "connect"
    /\ pc' = IF connect_resolve(req) = "resolved" THEN "connecting" ELSE "panicked"
    /\ UNCHANGED <<body, retry_i, conn_log, connect_ret, up_written, up_read,
                   buffer, nread, down, down_writes, end_reason, hvars, rvars>>

\* One TcpStream::connect(&addr) and what connect and forward do with it.
ConnectAttempt ==
    /\ pc = "connecting"
    /\ \E ok \in BOOLEAN :
         LET step == connect_attempt(retry_i, ok, Len(conn_log) + 1)
         IN  /\ conn_log' = Append(conn_log, ok)
             /\ retry_i' = step.i
             /\ connect_ret' = step.ret
             /\ pc' = IF ~step.returned THEN "connecting"
                      ELSE IF step.ret.state = "Ok" THEN "write_request"
                      ELSE "write_error"
    /\ UNCHANGED <<body, up_written, up_read, buffer, nread, down, down_writes,
                   end_reason, hvars, rvars>>

\* upstream.write_all(&self.serialize()).unwrap()
WriteRequest ==
    /\ pc = "write_request"
    /\ \E perm \in BucketOrders(req.headers) :
         \E w \in WriteOutcomes(Request_serialize(req, perm)) :
            /\ up_written' = up_written \o w.taken
            /\ pc' = IF w.ok THEN "write_body" ELSE "panicked"
    /\ UNCHANGED <<body, retry_i, conn_log, connect_ret, up_read, buffer, nread,
                   down, down_writes, end_reason, hvars, rvars>>

\* upstream.write_all(&body).unwrap()
WriteBody ==
    /\ pc = "write_body"
    /\ \E w \in WriteOutcomes(body) :
         /\ up_written' = up_written \o w.taken
         /\ pc' = IF w.ok THEN "read" ELSE "panicked"
    /\ UNCHANGED <<body, retry_i, conn_log, connect_ret, up_read, buffer, nread,
                   down, down_writes, end_reason, hvars, rvars>>

\* upstream.read(&mut buffer) returning Ok(n), n > 0
ReadData ==
    /\ pc = "read"
    /\ down_writes < MaxReads
    /\ \E n \in 1..BufferSize :
         \E chunk \in [1..n -> UpstreamBytes] :
            /\ buffer' = [i \in 1..BufferSize |-> IF i <= n THEN chunk[i] ELSE buffer[i]]
            /\ nread' = n
            /\ up_read' = up_read \o chunk
    /\ pc' = "write_down"
    /\ UNCHANGED <<body, retry_i, conn_log, connect_ret, up_written, down,
                   down_writes, end_reason, hvars, rvars>>

\* upstream.read(&mut buffer) returning Ok(0): break
ReadEof ==
    /\ pc = "read"
    /\ end_reason' = "eof"
    /\ pc' = "done"
    /\ UNCHANGED <<body, retry_i, conn_log, connect_ret, up_written, up_read,
                   buffer, nread, down, down_writes, hvars, rvars>>

\* ReadError handing the error on to the caller by unwinding.
ReadError_Reraise ==
    /\ pc = "read"
    /\ end_reason' = "read error"
    /\ pc' = "panicked"
    /\ UNCHANGED <<body, retry_i, conn_log, connect_ret, up_written, up_read,
                   buffer, nread, down, down_writes, hvars, rvars>>

\* upstream.read(&mut buffer) returning Err(e): println!, break
ReadError ==
    /\ pc = "read"
    /\ end_reason' = "read error"
    /\ pc' = "done"
    /\ UNCHANGED <<body, retry_i, conn_log, connect_ret, up_written, up_read,
                   buffer, nread, down, down_writes, hvars, rvars>>

\* downstream.write_all(&buffer[..n]).unwrap()
WriteDownstream ==
    /\ pc = "write_down"
    /\ \E w \in WriteOutcomes(relay_slice(buffer, nread)) :
         /\ down' = down \o w.taken
         /\ pc' = IF w.ok THEN "read" ELSE "panicked"
    /\ down_writes' = down_writes + 1
    /\ UNCHANGED <<body, retry_i, conn_log, connect_ret, up_written, up_read,
                   buffer, nread, end_reason, hvars, rvars>>

\* downstream.write_all(b"HTTP/1.1 501 ...").unwrap(); return
WriteErrorResponse ==
    /\ pc = "write_error"
    /\ \E w \in WriteOutcomes(ERROR_RESPONSE) :
         /\ down' = down \o w.taken
         /\ pc' = IF w.ok THEN "done" ELSE "panicked"
    /\ down_writes' = down_writes + 1
    /\ UNCHANGED <<body, retry_i, conn_log, connect_ret, up_written, up_read,
                   buffer, nread, end_reason, hvars, rvars>>

(***************************************************************************)
(* Specifications.                                                         *)
(***************************************************************************)
Init == HeadersInit /\ RequestIdle /\ ForwardIdle

Next == Insert \/ FromRaw \/ Get \/ ContentLength \/ ToUtf8 \/ Clone

Spec == Init /\ [][Next]_vars

RequestNext == RequestFromRaw \/ Serialize

RequestSpec == Init /\ [][RequestNext]_vars

\* forward(downstream, body) is entered with a Request that was built.
RelayInit ==
    /\ HeadersInit
    /\ \E input \in RelayInputs :
         /\ rin = input
         /\ req = Request_from_raw(input).request
         /\ rstate = Request_from_raw(input).status
    /\ rstate = "built"
    /\ rsite = ""
    /\ rout = <<>>
    /\ pc = "connect"
    /\ body \in Bodies
    /\ retry_i = 0
    /\ conn_log = <<>>
    /\ connect_ret = NotReturned
    /\ up_written = <<>>
    /\ up_read = <<>>
    /\ buffer = ZeroBuffer
    /\ nread = 0
    /\ down = <<>>
    /\ down_writes = 0
    /\ end_reason = ""

RelayNext ==
    \/ ConnectResolve \/ ConnectAttempt \/ WriteRequest \/ WriteBody
    \/ ReadData \/ ReadEof \/ ReadError \/ WriteDownstream \/ WriteErrorResponse

RelaySpec == RelayInit /\ [][RelayNext]_vars

\* forward runs on a thread of its own and every call it makes returns: a
\* run that can take a step takes one.  ReadData is enabled at most MaxReads
\* times, so upstream delivers EOF or an error after finitely many chunks.
RelayFairSpec == RelayInit /\ [][RelayNext]_vars /\ WF_vars(RelayNext)

(***************************************************************************)
(* Properties of the header store.                                         *)
(***************************************************************************)
\* The header block a field list stands for on the wire.
RECURSIVE WireLines(_)
WireLines(fields) ==
    IF fields = <<>> THEN <<>>
    ELSE Head(fields).name \o <<":", " ">> \o Head(fields).value \o <<"\r", "\n">>
         \o WireLines(Tail(fields))

Wire(fields) == WireLines(fields) \o <<"\r", "\n">>

NamesDistinct(fields) ==
    \A i, j \in 1..Len(fields) : fields[i].name = fields[j].name => i = j

KeysDistinct(fields) ==
    \A i, j \in 1..Len(fields) :
        to_lowercase(fields[i].name) = to_lowercase(fields[j].name) => i = j

\* The positions of the fields whose name is `key` ignoring case.
Matches(fields, key) ==
    {i \in 1..Len(fields) : to_lowercase(fields[i].name) = to_lowercase(key)}

FirstMatch(fields, key) ==
    CHOOSE i \in Matches(fields, key) : \A j \in Matches(fields, key) : i <= j

\* C1: a store built by Headers::from_raw from fields with pairwise distinct
\* names serializes to exactly the wire form of those fields, in input order
\* and closed by one "\r\n"; and from_raw does not refuse fields whose names
\* differ ignoring case.  (Field values that decode as UTF-8: on any other
\* value from_raw unwinds in OctopusHeader::new and builds nothing.)
C1_RoundTrip ==
    /\ (hstate = "from_raw" /\ ret.op = "to_utf8" /\ NamesDistinct(log))
           => ret.bytes = Wire(log)
    /\ hstate = "from_raw_err" => ~KeysDistinct(log)

C1_Witness ==
    /\ hstate = "from_raw"
    /\ ret.op = "to_utf8"
    /\ Len(log) = 3
    /\ KeysDistinct(log)
    /\ log[1].name = NameHost
    /\ log[2].name = NameContentLength
    /\ ret.bytes = Wire(log)

\* C2: after any sequence of insert calls on a new store, serialization emits
\* the fields in the order of the insert calls, each under its original-case
\* name, whatever the bucket a field lives in and whatever the order in which
\* the buckets are visited.
C2_InsertionOrder ==
    (hstate = "new" /\ ret.op = "to_utf8") => ret.bytes = Wire(log)

C2_Witness ==
    /\ hstate = "new"
    /\ ret.op = "to_utf8"
    /\ Len(log) = 3
    /\ log[1].name = NameAccept
    /\ log[2].name = NameHOST
    /\ log[3].name = NameAccept
    /\ log[1].value # log[3].value
    /\ ret.bytes = Wire(log)

\* C3: Headers::from_raw returns an error exactly when more than one field
\* has the lowercased name "host" or more than one has the lowercased name
\* "content-length"; duplicates of any other name are accepted.  (Whenever
\* from_raw returns, that is, for field values that decode as UTF-8.)
C3_DuplicateRejection ==
    (ret.op = "from_raw" /\ hstate \in {"from_raw", "from_raw_err"})
        => (hstate = "from_raw_err"
              <=> \/ Cardinality(Matches(log, KEY_HOST)) > 1
                  \/ Cardinality(Matches(log, KEY_CONTENT_LENGTH)) > 1)

C3_Witness ==
    /\ ret.op = "from_raw"
    /\ hstate = "from_raw_err"
    /\ Len(log) = 3
    /\ log[1].name = NameHost
    /\ log[2].name = NameAccept
    /\ log[3].name = NameHOST

\* C4: get(name) returns the value of the earliest-inserted field whose name
\* equals name ignoring ASCII case, and absent exactly when no such field
\* was inserted.
C4_FirstMatchLookup ==
    ret.op = "get" =>
        IF Matches(log, ret.arg) = {}
        THEN ~ret.some
        ELSE ret.some /\ ret.bytes = log[FirstMatch(log, ret.arg)].value

C4_Witness ==
    /\ ret.op = "get"
    /\ ret.arg = NameHOST
    /\ Len(log) = 3
    /\ log[2] = [name |-> NameHost, value |-> <<"1", "0">>]
    /\ log[3] = [name |-> NameHOST, value |-> <<"x">>]
    /\ ret.some
    /\ ret.bytes = <<"1", "0">>

\* C5: content_length() is absent when no Content-Length field (in any
\* letter case) was inserted, and otherwise is the number written in the
\* first-inserted Content-Length field, also when later Content-Length
\* fields hold other values.  (Whenever content_length() returns: the first
\* field holds a number.)
C5_ContentLength ==
    (ret.op = "content_length" /\ hstate # "panic") =>
        IF Matches(log, NameContentLength) = {}
        THEN ~ret.some
        ELSE /\ ret.some
             /\ ret.n = DecimalValue(log[FirstMatch(log, NameContentLength)].value)

C5_Witness ==
    /\ ret.op = "content_length"
    /\ Len(log) = 3
    /\ log[2] = [name |-> NameContentLength, value |-> <<"1", "0">>]
    /\ log[3] = [name |-> NameContentLength, value |-> <<"x">>]
    /\ ret.some
    /\ ret.n = 10

(***************************************************************************)
(* Properties of Request construction.                                     *)
(***************************************************************************)
FailsValidation(fields) ==
    \/ Cardinality(Matches(fields, KEY_HOST)) > 1
    \/ Cardinality(Matches(fields, KEY_CONTENT_LENGTH)) > 1

\* C6: Request::from_raw fails whenever the header list fails validation
\* (two Host or two Content-Length fields): no Request is built from such
\* input.
C6_ValidationAbortsConstruction ==
    FailsValidation(rin.headers) => rstate # "built"

\* C7: for a target classified relative and a Host field with value h in the
\* headers, the resolved URL is the parse of "http://" + h + target; for a
\* target classified absolute it is the parse of the target alone.
C7_UrlResolution ==
    rstate = "built" =>
        IF url_is_relative(rin.path)
        THEN \A i \in Matches(rin.headers, KEY_HOST) :
                 req.url = Url_parse(PREFIX_HTTP \o rin.headers[i].value \o rin.path)
        ELSE req.url = Url_parse(rin.path)

(***************************************************************************)
(* Properties of connect and forward.                                      *)
(***************************************************************************)
IsPrefix(s, t) == Len(s) <= Len(t) /\ SubSeq(t, 1, Len(s)) = s

\* C8: connect() makes at most three connection attempts, returns the
\* connection of the first attempt that succeeds and makes no attempt after
\* a success, and when all attempts fail returns the error of the final
\* attempt.
C8_ConnectAttempts ==
    LET n == Len(conn_log)
    IN  /\ n <= 3
        /\ \A k \in 1..(n - 1) : ~conn_log[k]
        /\ connect_ret.state = "Ok" <=> (n > 0 /\ conn_log[n])
        /\ connect_ret.state = "Ok" => connect_ret.id = n
        /\ connect_ret.state = "Err" <=> (n = 3 /\ ~conn_log[3])
        /\ connect_ret.state = "Err" => connect_ret.id = 3

C8_Witness ==
    /\ conn_log = <<FALSE, FALSE, FALSE>>
    /\ connect_ret = [state |-> "Err", id |-> 3]
    /\ pc = "write_error"

\* An HTTP message's body: what follows the empty line that closes the
\* header section; nothing when the header section is never closed.
HeaderEnd(msg) ==
    LET ends == {i \in 1..(Len(msg) - 3) :
                    SubSeq(msg, i, i + 3) = <<"\r", "\n", "\r", "\n">>}
    IN  IF ends = {} THEN 0 ELSE CHOOSE i \in ends : \A j \in ends : i <= j

HttpBody(msg) ==
    IF HeaderEnd(msg) = 0 THEN <<>>
    ELSE SubSeq(msg, HeaderEnd(msg) + 4, Len(msg))

CONTENT_LENGTH_PREFIX == NameContentLength \o <<":", " ">>

\* The value of the message's Content-Length header line.
DeclaredLength(msg) ==
    LET w      == Len(CONTENT_LENGTH_PREFIX)
        starts == {i \in 3..(Len(msg) - w) :
                      /\ SubSeq(msg, i - 2, i - 1) = <<"\r", "\n">>
                      /\ SubSeq(msg, i, i + w - 1) = CONTENT_LENGTH_PREFIX}
        at     == (CHOOSE i \in starts : \A j \in starts : i <= j) + w
        stop   == CHOOSE i \in at..Len(msg) :
                      msg[i] = "\r" /\ \A j \in at..(i - 1) : msg[j] # "\r"
    IN  IF starts = {} THEN -1 ELSE DecimalValue(SubSeq(msg, at, stop - 1))

StatusCode(msg) == SubSeq(msg, 10, 12)

\* C9: when every connection attempt fails, forward writes the fixed 501
\* response downstream exactly once, its Content-Length equal to the length
\* of its body, writes nothing else downstream and nothing upstream, and
\* returns normally.
C9_ErrorResponse ==
    (connect_ret.state = "Err" /\ pc \in {"done", "panicked"}) =>
        /\ pc = "done"
        /\ down_writes = 1
        /\ down = ERROR_RESPONSE
        /\ up_written = <<>>
        /\ StatusCode(down) = <<"5", "0", "1">>
        /\ DeclaredLength(down) = Len(HttpBody(down))

\* C10: while a forward run whose connect succeeded is under way, the bytes
\* written downstream are a prefix of the bytes read from upstream, and when
\* the run ends on a clean EOF the two are equal.
C10_RelayFidelity ==
    connect_ret.state = "Ok" =>
        /\ IsPrefix(down, up_read)
        /\ (pc = "done" /\ end_reason = "eof") => down = up_read

C10_Witness ==
    /\ connect_ret.state = "Ok"
    /\ pc = "done"
    /\ end_reason = "eof"
    /\ down_writes = 2
    /\ Len(up_read) = 3
    /\ up_read[1] # up_read[2]
    /\ down = up_read

(***************************************************************************)
(* Further properties of forward.                                          *)
(***************************************************************************)
\* A run whose connect succeeded, that wrote downstream at least once and is
\* neither reading nor writing any more: it has ended, by a break of the copy
\* loop or by a downstream write that failed.
StreamingEnded ==
    /\ connect_ret.state = "Ok"
    /\ down_writes >= 1
    /\ pc \notin {"read", "write_down"}

\* C11: when a write to the downstream sink fails while the relay is
\* streaming, the run ends in Closed (forward returns), reading nothing more
\* from upstream, without a panic.
C11_Cancellation ==
    StreamingEnded => pc = "done"

(***************************************************************************)
(* Further properties of Request.                                          *)
(***************************************************************************)
\* "<method> <url path> HTTP/1.<minor>\r\n"
RequestLine ==
    rin.method \o <<" ">> \o req.url.path
      \o <<" ", "H", "T", "T", "P", "/", "1", ".">> \o <<Digits[rin.version + 1]>>
      \o <<"\r", "\n">>

\* C12: Request.serialize() outputs exactly the request line followed by the
\* header block: after the last header line comes exactly one "\r\n", and no
\* body bytes.
C12_SerializeExact ==
    rout # <<>> => rout = RequestLine \o Wire(rin.headers)

\* The relay state a forward run is in.  "Aborted" is a run that a panic
\* unwound: forward did not return.
RelayPhase ==
    CASE pc \in {"connect", "connecting"} -> "Connecting"
      [] pc \in {"write_request", "write_body", "read", "write_down"} -> "Streaming"
      [] pc = "write_error" -> "ErrorResponseSent"
      [] pc = "done" -> "Closed"
      [] pc = "panicked" -> "Aborted"
      [] OTHER -> "Idle"

RelayEdge ==
    \/ /\ RelayPhase = "Connecting"
       /\ RelayPhase' = "Streaming"
       /\ connect_ret'.state = "Ok"
    \/ /\ RelayPhase = "Connecting"
       /\ RelayPhase' = "ErrorResponseSent"
       /\ connect_ret'.state = "Err"
    \/ /\ RelayPhase = "Streaming"
       /\ RelayPhase' = "Closed"
    \/ /\ RelayPhase = "ErrorResponseSent"
       /\ RelayPhase' = "Closed"
    \/ /\ RelayPhase = "Connecting"
       /\ RelayPhase' = "Aborted"
       /\ connect_resolve(req) # "resolved"

\* C13: every forward run starts in Connecting and moves only along
\* Connecting -> Streaming -> Closed (exactly when connect succeeded) or
\* Connecting -> ErrorResponseSent -> Closed (exactly when connect failed);
\* the error response is never written once Streaming was entered, the
\* failure path does no upstream read or write, and nothing happens after
\* Closed.
\* (Read in the claim's favour: a run that connect() itself gives up with a
\* panic, on a URL it cannot turn into an address, is left out.)
C13_RelayStateMachine ==
    /\ RelayPhase = "Connecting"
    /\ [][/\ RelayPhase' # RelayPhase => RelayEdge
          /\ RelayPhase = "Closed" => UNCHANGED vars
          /\ RelayPhase = "Streaming" => down' = down \/ IsPrefix(down', up_read')
          /\ RelayPhase = "ErrorResponseSent" =>
                 (up_written' = up_written /\ up_read' = up_read)]_vars

(***************************************************************************)
(* Target classification.                                                  *)
(***************************************************************************)
Positions(s, c) == {i \in 1..Len(s) : s[i] = c}

\* A '/' stands before the first ':'.
SlashBeforeColon(s) ==
    \E i \in Positions(s, "/") : \A j \in Positions(s, ":") : i < j

\* C14 as stated: a target is classified relative if a '/' occurs before the
\* first ':' or if it contains no ':' at all (with or without a '/'), and
\* absolute in every other case.
C14_ClassificationAsStated ==
    rstate # "none" =>
        (url_is_relative(rin.path)
            <=> (SlashBeforeColon(rin.path) \/ Positions(rin.path, ":") = {}))

\* C14 amended: a target is classified relative exactly when it contains a
\* '/' and that '/' occurs before the first ':' or there is no ':' at all; a
\* target without any '/' is classified absolute, also when it has no ':'.
C14_Classification ==
    rstate # "none" =>
        (url_is_relative(rin.path)
            <=> /\ Positions(rin.path, "/") # {}
                /\ (SlashBeforeColon(rin.path) \/ Positions(rin.path, ":") = {}))

C14_Witness ==
    /\ rstate = "panic"
    /\ rsite = "url parse"
    /\ rin.path = <<"i">>
    /\ ~url_is_relative(rin.path)
    /\ Len(rin.headers) = 1
    /\ rin.headers[1].name = NameHost

\* C15: when the raw target is relative and the headers hold no Host field,
\* Request construction fails with an error returned to the caller: it does
\* not panic and it builds no Request.
C15_MissingHostIsAnError ==
    (/\ rstate # "none"
     /\ url_is_relative(rin.path)
     /\ Matches(rin.headers, KEY_HOST) = {}
     /\ \A i \in 1..Len(rin.headers) : Utf8Valid(rin.headers[i].value))
        => rstate \notin {"panic", "built"}

(***************************************************************************)
(* Further properties of the header store.                                 *)
(***************************************************************************)
\* C16: when the first-inserted Content-Length field does not hold an
\* unsigned integer, content_length() returns an error value, leaving the
\* store unchanged, rather than aborting.
C16_ParseErrorIsAValue ==
    (/\ ret.op = "content_length"
     /\ Matches(log, NameContentLength) # {}
     /\ ~ParsesAsUsize(log[FirstMatch(log, NameContentLength)].value))
        => hstate # "panic"

\* The stored fields of a store, each named by its key and its place in the
\* key's bucket.
Slots(h) ==
    UNION {{<<k, i>> : i \in 1..Len(h.data[k])} : k \in DOMAIN h.data}

FieldAt(h, slot) == h.data[slot[1]][slot[2]]

\* C17: in every store built by new/insert or from_raw, the order values of
\* the stored fields are unique, each equals the zero-based position of its
\* field in the input sequence (first field 0, second 1, ...), whatever bucket
\* holds it, and total_count equals the number of stored fields.
C17_OrderIsInputPosition ==
    Usable =>
        /\ \A s, t \in Slots(hdrs) :
               FieldAt(hdrs, s).order = FieldAt(hdrs, t).order => s = t
        /\ \A s \in Slots(hdrs) :
               LET f == FieldAt(hdrs, s)
               IN  /\ f.order < Len(log)
                   /\ log[f.order + 1].name = f.original_name
                   /\ log[f.order + 1].value = f.value
        /\ hdrs.total_count = Len(log)

\* Sum over the fields of (length of name + length of value + 4).
RECURSIVE RowBytes(_)
RowBytes(fields) ==
    IF fields = <<>> THEN 0
    ELSE Len(Head(fields).name) + Len(Head(fields).value) + 4
         + RowBytes(Tail(fields))

\* Sum of the length hints the store keeps with its fields.
RECURSIVE HintSum(_, _)
HintSum(h, slots) ==
    IF slots = {} THEN 0
    ELSE LET s == CHOOSE x \in slots : TRUE
         IN  FieldAt(h, s).length_hint + HintSum(h, slots \ {s})

\* C18: the serialized header block, and the capacity computed for its
\* buffer, are as long as the sum over the stored fields of (name + value + 4)
\* plus 2 for the terminator, which is also the sum of the stored length hints
\* plus 2; so N fields give more than N bytes, every line whole.
C18_SerializedLength ==
    ret.op = "to_utf8" =>
        /\ hstate # "panic"
        /\ Len(ret.bytes) = RowBytes(log) + 2
        /\ ret.n = RowBytes(log) + 2
        /\ ret.n = HintSum(hdrs, Slots(hdrs)) + Len(HEADER_NEWLINE)
        /\ Len(ret.bytes) > Len(log)
        /\ ret.bytes = Wire(log)

\* Three fields under one name, serialized from a store that from_raw began.
C18_Witness ==
    /\ ret.op = "to_utf8"
    /\ hstate = "from_raw"
    /\ Len(log) = MaxHeaders
    /\ \A i \in 1..Len(log) : log[i].name = NameAccept
    /\ Len(ret.bytes) > MaxHeaders
    /\ ret.n = Len(ret.bytes)

\* C20: after any sequence of new, from_raw, insert and clone the order values
\* of the stored fields are pairwise distinct and each is below total_count,
\* so to_utf8 never indexes its row table out of bounds, never puts two fields
\* in one row and never replaces a field row by the terminator row.
C20_IndexSafety ==
    /\ Usable =>
           /\ \A s, t \in Slots(hdrs) :
                  FieldAt(hdrs, s).order = FieldAt(hdrs, t).order => s = t
           /\ \A s \in Slots(hdrs) : FieldAt(hdrs, s).order < hdrs.total_count
    /\ ret.op = "to_utf8" => hstate # "panic"

\* A clone of a store that from_raw began and insert extended, two of its
\* fields in one bucket.
C20_Witness ==
    /\ ret.op = "clone"
    /\ hstate = "from_raw"
    /\ Len(log) = MaxHeaders
    /\ hdrs.total_count > Len(log)
    /\ \E k \in DOMAIN hdrs.data : Len(hdrs.data[k]) >= 2

(***************************************************************************)
(* Termination of the relay.                                               *)
(***************************************************************************)
\* C19: in the copy loop (connect succeeded, request written upstream) a read
\* that delivers no data, a clean EOF or an error, ends the run in Closed at
\* once; a read error never unwinds to the caller; the loop is left by an
\* unwind only when a downstream write failed; and so, upstream delivering
\* EOF or an error after finitely many chunks and downstream writes
\* succeeding, every run that entered the loop reaches Closed.
C19_RelayTermination ==
    /\ [][(pc = "read" /\ pc' # "write_down")
             => /\ pc' = "done"
                /\ end_reason' \in {"eof", "read error"}
                /\ down' = down]_vars
    /\ [](end_reason = "read error" => pc = "done")
    /\ [][(pc \in {"read", "write_down"} /\ pc' = "panicked")
             => /\ pc = "write_down"
                /\ down' # down \o relay_slice(buffer, nread)]_vars
    /\ (pc = "read") ~> (pc = "done" \/ pc = "panicked")

\* A run closed by an upstream read error after everything read was relayed.
C19_Witness ==
    /\ pc = "done"
    /\ end_reason = "read error"
    /\ connect_ret.state = "Ok"
    /\ down_writes = MaxReads
    /\ down = up_read

====
